---- MODULE Spec2Model ----
(***************************************************************************)
(* Model of the Nexus URL shortener (app/main.py, app/services.py,         *)
(* app/database.py, app/middleware.py).                                    *)
(*                                                                         *)
(* Requests are served by several server processes (Workers) that share    *)
(* one relational store.  Every query and every commit of the source is    *)
(* one atomic step of the store; the steps of different workers            *)
(* interleave freely.  The short-code space (62^6 codes in the source) is  *)
(* represented by the small set Codes.                                     *)
(*                                                                         *)
(* w[p] is the request worker p is serving, last is the request that was   *)
(* answered most recently (with its response), hist counts per short code  *)
(* what has completed so far.                                              *)
(*                                                                         *)
(* The rate limiter (app/middleware.py) is modelled on its own: now is the *)
(* clock in whole seconds (int(time.time())), zsets and zexpire are the    *)
(* sorted sets and key expiries of the shared store, memory_store is the   *)
(* process-local store, rl_log lists the admission checks made so far.     *)
(*                                                                         *)
(* The analytics (get_analytics) are modelled over full Click rows; utcnow *)
(* is datetime.utcnow() counted in instants, DayLength instants to a day.  *)
(***************************************************************************)
EXTENDS Integers, Sequences, FiniteSets, TLC

VARIABLES urls, clicks, w, last, served, hist,
          now, redis_available, has_memory_store, memory_store, zsets, zexpire,
          rl_log, utcnow

regvars == <<urls, clicks, w, last, served, hist>>
rlvars == <<now, redis_available, has_memory_store, memory_store, zsets,
            zexpire, rl_log>>
vars == <<regvars, rlvars, utcnow>>

\* ---------------------------------------------------------------- bounds
NumWorkers == 2
MaxServed == 3

Workers == 1..NumWorkers
Codes == {"a", "b"}
GoodURLs == {"https://example.com", "https://example2.com"}
BadURLs == {"not-a-valid-url"}
URLs == GoodURLs \cup BadURLs
None == "None"
Clients == {"10.0.0.1", "10.0.0.2"}
NoExpiry == -1

Min(S) == CHOOSE x \in S : \A y \in S : x <= y

\* ------------------------------------------------------- the URL table
\* A new row of table urls: click_count defaults to 0, is_active to TRUE.
URL(id, original_url, short_code) ==
    [id |-> id, original_url |-> original_url, short_code |-> short_code,
     click_count |-> 0, is_active |-> TRUE]

\* A new row of table clicks.
Click(short_code) == [short_code |-> short_code]

RowsWithCode(c) == {i \in DOMAIN urls : urls[i].short_code = c}

\* The existence check with the is_active filter of get_url_by_code added.
code_exists_active_only(c) ==
    \E i \in DOMAIN urls : urls[i].short_code = c /\ urls[i].is_active

\* db.query(URL).filter(URL.short_code == code).first() is not None
code_exists(c) == \E i \in DOMAIN urls : urls[i].short_code = c

\* The column declared without unique=True: no insert is ever rejected.
unique_violation_never(c) == FALSE

\* The unique=True constraint on urls.short_code, enforced at commit.
unique_violation(c) == \E i \in DOMAIN urls : urls[i].short_code = c

\* The lookup without its is_active filter.
get_url_by_code_any(c) ==
    IF RowsWithCode(c) = {} THEN 0 ELSE Min(RowsWithCode(c))

\* db.query(URL).filter(short_code == c, is_active == True).first();
\* 0 stands for Python's None.
get_url_by_code(c) ==
    LET S == {i \in DOMAIN urls : urls[i].short_code = c /\ urls[i].is_active}
    IN  IF S = {} THEN 0 ELSE Min(S)

\* db.query(URL).filter(URL.short_code == c).first() in increment_click_count
first_by_code(c) == IF RowsWithCode(c) = {} THEN 0 ELSE Min(RowsWithCode(c))

\* len(clicks) over db.query(Click).filter(Click.short_code == c).all()
total_clicks(c) == Cardinality({i \in DOMAIN clicks : clicks[i].short_code = c})

\* ------------------------------------------------------------ validation
\* pydantic's HttpUrl on URLCreate.original_url (422 when it fails)
HttpUrl(u) == u \notin BadURLs

\* validators.url(original_url)
validators_url(u) == u \notin BadURLs

\* ------------------------------------------------------- error mapping
\* create_short_url's handlers: ValueError -> 400, any other Exception -> 500
create_error_status(exc) == IF exc = "ValueError" THEN 400 ELSE 500

\* The recording error not swallowed: it reaches the framework as a 500.
redirect_after_track_error_raised(original_url) ==
    [status |-> 500, location |-> None]

\* redirect_url: "except Exception: pass", then the RedirectResponse
redirect_after_track_error(original_url) ==
    [status |-> 302, location |-> original_url]

\* ------------------------------------------------------------- workers
Idle ==
    [pc |-> "idle", kind |-> "none", url |-> None, custom |-> None,
     code |-> None, status |-> 0, location |-> None, row |-> 0, read |-> 0,
     exc |-> "none", trackErr |-> "none", existed |-> FALSE, found |-> "none"]

NoHist ==
    [created |-> 0, redirected |-> 0, incremented |-> 0, dropped |-> 0,
     failed |-> FALSE]

InitRegistry ==
    /\ urls = <<>>
    /\ clicks = <<>>
    /\ w = [p \in Workers |-> Idle]
    /\ last = Idle
    /\ served = 0
    /\ hist = [c \in Codes |-> NoHist]
    /\ utcnow = 0

\* RateLimiter.__init__: redis.from_url returned (ok) or raised.  Only the
\* except branch creates self.memory_store.
InitLimiter(ok) ==
    /\ now = 0
    /\ redis_available = ok
    /\ has_memory_store = ~ok
    /\ memory_store = [c \in Clients |-> <<>>]
    /\ zsets = [c \in Clients |-> {}]
    /\ zexpire = [c \in Clients |-> NoExpiry]
    /\ rl_log = <<>>

Init == InitRegistry /\ InitLimiter(TRUE)

Free(p) == w[p].pc = "idle"

\* Workers are interchangeable: a request goes to the lowest free one.
Dispatch(p) == Free(p) /\ \A q \in Workers : q < p => ~Free(q)

\* Worker p answers its request: r is the request with its response.
Answer(p, r) ==
    /\ w' = [w EXCEPT ![p] = Idle]
    /\ last' = [r EXCEPT !.pc = "done", !.read = 0]

\* Worker p moves on inside its request.
Continue(p, r) ==
    /\ w' = [w EXCEPT ![p] = r]
    /\ UNCHANGED last

\* POST /shorten with neither the HttpUrl field type nor validators.url
StartCreate_unvalidated(p, u, cc) ==
    /\ Dispatch(p)
    /\ served < MaxServed
    /\ served' = served + 1
    /\ LET r == [Idle EXCEPT !.kind = "create", !.url = u, !.custom = cc,
                             !.existed = (cc # None /\ RowsWithCode(cc) # {})]
       IN  IF cc # None
           THEN Continue(p, [r EXCEPT !.pc = "check"])
           ELSE Continue(p, [r EXCEPT !.pc = "gen"])
    /\ UNCHANGED <<urls, clicks, hist>>
    /\ UNCHANGED <<rlvars, utcnow>>

\* POST /shorten arrives: body validation, then line 23 of create_short_url
StartCreate(p, u, cc) ==
    /\ Dispatch(p)
    /\ served < MaxServed
    /\ served' = served + 1
    /\ LET r == [Idle EXCEPT !.kind = "create", !.url = u, !.custom = cc,
                             !.existed = (cc # None /\ RowsWithCode(cc) # {})]
       IN  IF ~HttpUrl(u)
           THEN Answer(p, [r EXCEPT !.status = 422])
           ELSE IF ~validators_url(u)
           THEN Answer(p, [r EXCEPT !.exc = "ValueError",
                                    !.status = create_error_status("ValueError")])
           ELSE IF cc # None
           THEN Continue(p, [r EXCEPT !.pc = "check"])
           ELSE Continue(p, [r EXCEPT !.pc = "gen"])
    /\ UNCHANGED <<urls, clicks, hist>>
    /\ UNCHANGED <<rlvars, utcnow>>

\* lines 27-30: the existence check of a custom code
CheckCustom(p) ==
    /\ w[p].pc = "check"
    /\ IF code_exists(w[p].custom)
       THEN Answer(p, [w[p] EXCEPT !.exc = "ValueError",
                                   !.status = create_error_status("ValueError")])
       ELSE Continue(p, [w[p] EXCEPT !.pc = "insert", !.code = w[p].custom])
    /\ UNCHANGED <<urls, clicks, served, hist>>
    /\ UNCHANGED <<rlvars, utcnow>>

\* line 34: short_code = URLService.generate_short_code()
GenerateCode(p, c) ==
    /\ w[p].pc = "gen"
    /\ Continue(p, [w[p] EXCEPT !.pc = "genchk", !.code = c])
    /\ UNCHANGED <<urls, clicks, served, hist>>
    /\ UNCHANGED <<rlvars, utcnow>>

\* lines 33, 35-36: leave the while True loop only on an unused code
CheckGenerated(p) ==
    /\ w[p].pc = "genchk"
    /\ IF ~code_exists(w[p].code)
       THEN Continue(p, [w[p] EXCEPT !.pc = "insert"])
       ELSE Continue(p, [w[p] EXCEPT !.pc = "gen"])
    /\ UNCHANGED <<urls, clicks, served, hist>>
    /\ UNCHANGED <<rlvars, utcnow>>

\* lines 38-46 and the handler's response: db.add, db.commit, db.refresh
Insert(p) ==
    /\ w[p].pc = "insert"
    /\ IF unique_violation(w[p].code)
       THEN /\ Answer(p, [w[p] EXCEPT !.exc = "IntegrityError",
                            !.status = create_error_status("IntegrityError")])
            /\ UNCHANGED <<urls, hist>>
       ELSE /\ urls' = Append(urls, URL(Len(urls) + 1, w[p].url, w[p].code))
            /\ Answer(p, [w[p] EXCEPT !.status = 200, !.row = Len(urls) + 1])
            /\ hist' = [hist EXCEPT ![w[p].code].created = @ + 1]
    /\ UNCHANGED <<clicks, served>>
    /\ UNCHANGED <<rlvars, utcnow>>

\* GET /{short_code} arrives
StartRedirect(p, c) ==
    /\ Dispatch(p)
    /\ served < MaxServed
    /\ served' = served + 1
    /\ Continue(p, [Idle EXCEPT !.kind = "redirect", !.pc = "lookup", !.code = c])
    /\ UNCHANGED <<urls, clicks, hist>>
    /\ UNCHANGED <<rlvars, utcnow>>

\* What the store holds for a code when it is looked up.
Presence(c) ==
    IF RowsWithCode(c) = {} THEN "absent"
    ELSE IF \E i \in RowsWithCode(c) : urls[i].is_active THEN "active"
    ELSE "inactive"

\* redirect_url lines 77-80
Lookup(p) ==
    /\ w[p].pc = "lookup"
    /\ LET i == get_url_by_code(w[p].code)
           r == [w[p] EXCEPT !.found = Presence(w[p].code)]
       IN  IF i = 0
           THEN Answer(p, [r EXCEPT !.status = 404])
           ELSE Continue(p, [r EXCEPT !.pc = "track", !.row = i,
                                      !.url = urls[i].original_url])
    /\ UNCHANGED <<urls, clicks, served, hist>>
    /\ UNCHANGED <<rlvars, utcnow>>

\* The redirect answered after click recording ran to its end.
Redirected(r) == [r EXCEPT !.status = 302, !.location = r.url]

\* The redirect answered after click recording raised at step e.
RedirectedAfterError(r, e) ==
    LET resp == redirect_after_track_error(r.url)
    IN  [r EXCEPT !.trackErr = e, !.status = resp.status,
                  !.location = resp.location]

NoteDone(c) == [hist EXCEPT ![c].redirected = @ + 1]
NoteFailed(c) == [hist EXCEPT ![c].redirected = @ + 1, ![c].failed = TRUE]
NoteDropped(c) == [NoteFailed(c) EXCEPT ![c].dropped = @ + 1]

\* track_click going on to the increment without storing the Click row
TrackClick_no_insert(p) ==
    /\ w[p].pc = "track"
    /\ Continue(p, [w[p] EXCEPT !.pc = "incr_read"])
    /\ UNCHANGED <<urls, clicks, served, hist>>
    /\ UNCHANGED <<rlvars, utcnow>>

\* track_click storing the Click row twice
TrackClick_twice(p) ==
    /\ w[p].pc = "track"
    /\ Continue(p, [w[p] EXCEPT !.pc = "incr_read"])
    /\ clicks' = clicks \o <<Click(w[p].code), Click(w[p].code)>>
    /\ UNCHANGED <<urls, served, hist>>
    /\ UNCHANGED <<rlvars, utcnow>>

\* track_click lines 66-77: user_agents.parse, Click(...), db.add, db.commit
TrackClick(p) ==
    /\ w[p].pc = "track"
    /\ Continue(p, [w[p] EXCEPT !.pc = "incr_read"])
    /\ clicks' = Append(clicks, Click(w[p].code))
    /\ UNCHANGED <<urls, served, hist>>
    /\ UNCHANGED <<rlvars, utcnow>>

\* track_click raises in user_agents.parse or in the commit of the Click
TrackClickFails(p, e) ==
    /\ w[p].pc = "track"
    /\ e \in {"parse", "insert"}
    /\ Answer(p, RedirectedAfterError(w[p], e))
    /\ hist' = NoteDropped(w[p].code)
    /\ UNCHANGED <<urls, clicks, served>>
    /\ UNCHANGED <<rlvars, utcnow>>

\* increment_click_count lines 56-57: the query
IncrRead(p) ==
    /\ w[p].pc = "incr_read"
    /\ LET i == first_by_code(w[p].code)
       IN  IF i = 0
           THEN /\ Answer(p, Redirected(w[p]))
                /\ hist' = NoteDone(w[p].code)
           ELSE /\ Continue(p, [w[p] EXCEPT !.pc = "incr_write", !.row = i,
                                            !.read = urls[i].click_count])
                /\ UNCHANGED hist
    /\ UNCHANGED <<urls, clicks, served>>
    /\ UNCHANGED <<rlvars, utcnow>>

\* increment_click_count lines 58-59: url.click_count += 1; db.commit()
IncrWrite(p) ==
    /\ w[p].pc = "incr_write"
    /\ urls' = [urls EXCEPT ![w[p].row].click_count = w[p].read + 1]
    /\ Answer(p, Redirected(w[p]))
    /\ hist' = [hist EXCEPT ![w[p].code].redirected = @ + 1,
                            ![w[p].code].incremented = @ + 1]
    /\ UNCHANGED <<clicks, served>>
    /\ UNCHANGED <<rlvars, utcnow>>

\* the commit of the increment raises
IncrWriteFails(p) ==
    /\ w[p].pc = "incr_write"
    /\ Answer(p, RedirectedAfterError(w[p], "increment"))
    /\ hist' = NoteFailed(w[p].code)
    /\ UNCHANGED <<urls, clicks, served>>
    /\ UNCHANGED <<rlvars, utcnow>>

\* Soft delete: is_active of an existing row is flipped to FALSE.
Deactivate(c) ==
    /\ \E i \in RowsWithCode(c) : urls[i].is_active
    /\ urls' = [i \in DOMAIN urls |->
                  IF urls[i].short_code = c
                  THEN [urls[i] EXCEPT !.is_active = FALSE]
                  ELSE urls[i]]
    /\ UNCHANGED <<clicks, w, last, served, hist>>
    /\ UNCHANGED <<rlvars, utcnow>>

Next ==
    \/ \E p \in Workers, u \in URLs, cc \in Codes \cup {None} : StartCreate(p, u, cc)
    \/ \E p \in Workers : CheckCustom(p)
    \/ \E p \in Workers, c \in Codes : GenerateCode(p, c)
    \/ \E p \in Workers : CheckGenerated(p)
    \/ \E p \in Workers : Insert(p)
    \/ \E p \in Workers, c \in Codes : StartRedirect(p, c)
    \/ \E p \in Workers : Lookup(p)
    \/ \E p \in Workers : TrackClick(p)
    \/ \E p \in Workers, e \in {"parse", "insert"} : TrackClickFails(p, e)
    \/ \E p \in Workers : IncrRead(p)
    \/ \E p \in Workers : IncrWrite(p)
    \/ \E p \in Workers : IncrWriteFails(p)
    \/ \E c \in Codes : Deactivate(c)

Spec == Init /\ [][Next]_vars

\* A step of the request worker p is serving.
WorkerStep(p) ==
    \/ CheckCustom(p)
    \/ \E c \in Codes : GenerateCode(p, c)
    \/ CheckGenerated(p)
    \/ Insert(p)
    \/ Lookup(p)
    \/ TrackClick(p)
    \/ \E e \in {"parse", "insert"} : TrackClickFails(p, e)
    \/ IncrRead(p)
    \/ IncrWrite(p)
    \/ IncrWriteFails(p)

\* generate_short_code draws a code that no row holds.
FreshCode(p) == \E c \in Codes : ~code_exists(c) /\ GenerateCode(p, c)

\* Every worker keeps running its request, and the uniform random generator
\* does not avoid the unused codes forever.
FairSpec ==
    Spec /\ \A p \in Workers : WF_vars(WorkerStep(p)) /\ SF_vars(FreshCode(p))

\* ------------------------------------------- redirects of a stored URL
\* The store is durable: the service runs on a table that already holds a
\* URL created earlier, and serves redirect requests only.
InitClicks ==
    /\ urls = <<URL(1, "https://example.com", "a")>>
    /\ clicks = <<>>
    /\ w = [p \in Workers |-> Idle]
    /\ last = Idle
    /\ served = 0
    /\ hist = [c \in Codes |-> IF c = "a" THEN [NoHist EXCEPT !.created = 1]
                                          ELSE NoHist]
    /\ utcnow = 0
    /\ InitLimiter(TRUE)

NextClicks ==
    \/ \E p \in Workers, c \in Codes : StartRedirect(p, c)
    \/ \E p \in Workers : Lookup(p)
    \/ \E p \in Workers : TrackClick(p)
    \/ \E p \in Workers, e \in {"parse", "insert"} : TrackClickFails(p, e)
    \/ \E p \in Workers : IncrRead(p)
    \/ \E p \in Workers : IncrWrite(p)
    \/ \E p \in Workers : IncrWriteFails(p)
    \/ \E c \in Codes : Deactivate(c)

SpecClicks == InitClicks /\ [][NextClicks]_vars

\* ------------------------------------------------------- the analytics
\* Counter(...).most_common(5) and timedelta(days=30)
TopN == 5
HistoryDays == 30
DayLength == 2

\* A row of table clicks as track_click stores it.
ClickRow(short_code, ip_address, user_agent, referer, clicked_at) ==
    [short_code |-> short_code, ip_address |-> ip_address,
     user_agent |-> user_agent, referer |-> referer, country |-> "Unknown",
     city |-> "Unknown", clicked_at |-> clicked_at]

\* user_agents.parse(user_agent).browser: family and version of the
\* browsers the parser knows, family "Other" with no version otherwise
user_agents_parse(user_agent) ==
    CASE user_agent = "Mozilla/5.0 Chrome/120.0" ->
           [family |-> "Chrome", version_string |-> "120.0"]
      [] user_agent = "Mozilla/5.0 Firefox/119.0" ->
           [family |-> "Firefox", version_string |-> "119.0"]
      [] OTHER -> [family |-> "Other", version_string |-> ""]

\* f"{ua.browser.family} {ua.browser.version_string}"
browser(user_agent) ==
    LET ua == user_agents_parse(user_agent)
    IN  ua.family \o " " \o ua.version_string

\* Python's truth value of an Optional[str] column
Truthy(v) == v \notin {None, ""}

\* The query of get_analytics without its short_code filter.
clicks_of_any(c) == clicks

\* db.query(Click).filter(Click.short_code == short_code).all()
clicks_of(c) == SelectSeq(clicks, LAMBDA e : e.short_code = c)

\* [x for x in values if x]
NonEmpty(values) == SelectSeq(values, LAMBDA v : Truthy(v))

RECURSIVE Ascending(_)
\* The numbers of a set in ascending order.
Ascending(S) ==
    IF S = {} THEN <<>> ELSE <<Min(S)>> \o Ascending(S \ {Min(S)})

\* collections.Counter(values): the distinct values in the order in which
\* they are first met, each with the number of its occurrences.
Counter(values) ==
    LET first == Ascending({i \in DOMAIN values :
                               \A j \in 1..(i - 1) : values[j] # values[i]})
    IN  [k \in DOMAIN first |->
            [key |-> values[first[k]],
             count |-> Cardinality({j \in DOMAIN values :
                                       values[j] = values[first[k]]})]]

\* The sort of most_common the other way round: ascending by count.
InsertByCount_ascending(sorted, x) ==
    LET k == Cardinality({i \in DOMAIN sorted : sorted[i].count <= x.count})
    IN  SubSeq(sorted, 1, k) \o <<x>> \o SubSeq(sorted, k + 1, Len(sorted))

\* One step of the stable sort by descending count: x goes behind every
\* entry that counts at least as much.
InsertByCount(sorted, x) ==
    LET k == Cardinality({i \in DOMAIN sorted : sorted[i].count >= x.count})
    IN  SubSeq(sorted, 1, k) \o <<x>> \o SubSeq(sorted, k + 1, Len(sorted))

RECURSIVE SortByCount(_)
SortByCount(counter) ==
    IF counter = <<>> THEN <<>>
    ELSE InsertByCount(SortByCount(SubSeq(counter, 1, Len(counter) - 1)),
                       counter[Len(counter)])

\* Counter.most_common(n): the n largest counts, equal counts in the order
\* in which their values were first met
most_common(counter, n) ==
    LET sorted == SortByCount(counter)
    IN  SubSeq(sorted, 1, IF Len(sorted) < n THEN Len(sorted) ELSE n)

\* Counter([...]).most_common(5) over one column of the rows
top_values(values) == most_common(Counter(NonEmpty(values)), TopN)

Column(rows, f) == [i \in DOMAIN rows |-> rows[i][f]]

\* thirty_days_ago = now - timedelta(days=30)
thirty_days_ago == utcnow - HistoryDays * DayLength

\* The click history with no cut-off: every click counts as recent.
is_recent_always(clicked_at) == TRUE

\* c.clicked_at >= thirty_days_ago
is_recent(clicked_at) == clicked_at >= thirty_days_ago

\* clicked_at.date(): the number of the calendar day
date(clicked_at) == clicked_at \div DayLength

\* date.isoformat(): zero-padded digits, most significant first
isoformat(d) == <<d \div 100, (d \div 10) % 10, d % 10>>

\* The order of Python strings of one length
StrLess(a, b) ==
    \E i \in DOMAIN a : a[i] < b[i] /\ \A j \in 1..(i - 1) : a[j] = b[j]

RECURSIVE sorted(_)
\* sorted(click_history.items()): the keys are distinct, so by key
sorted(keys) ==
    IF keys = {} THEN <<>>
    ELSE LET m == CHOOSE x \in keys : \A y \in keys \ {x} : StrLess(x, y)
         IN  <<m>> \o sorted(keys \ {m})

\* lines 111-121 of get_analytics
click_history(rows) ==
    LET recent == SelectSeq(rows, LAMBDA e : is_recent(e.clicked_at))
        key(e) == isoformat(date(e.clicked_at))
        keys == sorted({key(recent[i]) : i \in DOMAIN recent})
    IN  [k \in DOMAIN keys |->
            [date |-> keys[k],
             clicks |-> Cardinality({i \in DOMAIN recent :
                                        key(recent[i]) = keys[k]})]]

\* AnalyticsService.get_analytics
get_analytics(c) ==
    LET rows == clicks_of(c)
    IN  IF rows = <<>>
        THEN [total_clicks |-> 0, unique_ips |-> 0, top_countries |-> <<>>,
              top_referrers |-> <<>>, click_history |-> <<>>,
              browser_stats |-> <<>>]
        ELSE [total_clicks |-> Len(rows),
              unique_ips |-> Cardinality({rows[i].ip_address : i \in DOMAIN rows}
                                         \ {None, ""}),
              top_countries |-> top_values(Column(rows, "country")),
              top_referrers |-> top_values(Column(rows, "referer")),
              click_history |-> click_history(rows),
              browser_stats |-> top_values(Column(rows, "user_agent"))]

\* GET /api/analytics/{short_code}: 404 without an active URL, else the
\* summary of get_analytics; at is the time at which it was computed
GetAnalytics(c) ==
    /\ last' = IF get_url_by_code(c) = 0
               THEN [kind |-> "analytics", pc |-> "done", code |-> c,
                     status |-> 404]
               ELSE [kind |-> "analytics", pc |-> "done", code |-> c,
                     status |-> 200, at |-> utcnow,
                     body |-> get_analytics(c)]
    /\ UNCHANGED <<urls, clicks, w, served, hist, rlvars, utcnow>>

\* GET /{short_code} served from lookup to response with no other request
\* in between and no recording failure: the Click row is stored with the
\* visitor's data and the current time, click_count is incremented.
RedirectOnce(c, visit) ==
    /\ get_url_by_code(c) # 0
    /\ LET i == get_url_by_code(c)
       IN  /\ clicks' = Append(clicks, ClickRow(c, visit.ip_address,
                                  browser(visit.user_agent), visit.referer,
                                  utcnow))
           /\ urls' = [urls EXCEPT ![i].click_count = @ + 1]
           /\ last' = [Redirected([Idle EXCEPT !.kind = "redirect", !.code = c,
                                      !.row = i, !.found = "active",
                                      !.url = urls[i].original_url])
                         EXCEPT !.pc = "done"]
    /\ served' = served + 1
    /\ hist' = [hist EXCEPT ![c].redirected = @ + 1, ![c].incremented = @ + 1]
    /\ UNCHANGED <<w, rlvars, utcnow>>

\* The service runs on a store that already holds a URL for every code.
InitAnalytics ==
    /\ urls = <<URL(1, "https://example.com", "a"),
                URL(2, "https://example2.com", "b")>>
    /\ clicks = <<>>
    /\ w = [p \in Workers |-> Idle]
    /\ last = Idle
    /\ served = 0
    /\ hist = [c \in Codes |-> [NoHist EXCEPT !.created = 1]]
    /\ utcnow = 0
    /\ InitLimiter(TRUE)

\* --- the top lists: visitors that differ in referer, browser and address
MaxEvents == 7

Sites == <<"https://r1", "https://r2", "https://r3", "https://r4",
           "https://r5", "https://r6">>
UserAgents == <<"Mozilla/5.0 Chrome/120.0", "Mozilla/5.0 Firefox/119.0", "">>
Addresses == <<"10.0.0.1", "10.0.0.2">>

\* Visitor 0 sends no Referer header; visitor k > 0 comes from site k.
Visit(k) ==
    IF k = 0
    THEN [ip_address |-> "10.0.0.3", user_agent |-> "curl/8.0",
          referer |-> None]
    ELSE [ip_address |-> Addresses[(k % 2) + 1],
          user_agent |-> UserAgents[(k % 3) + 1], referer |-> Sites[k]]

\* The sites are interchangeable: a site not seen yet is the next of Sites.
\* Code "b" is visited by visitor 0 only.
TopVisit(c, k) ==
    /\ Len(clicks) < MaxEvents
    /\ c = "a" \/ k = 0
    /\ \A j \in 1..(k - 1) : \E i \in DOMAIN clicks : clicks[i].referer = Sites[j]
    /\ RedirectOnce(c, Visit(k))

InitTop == InitAnalytics

NextTop ==
    \/ \E c \in Codes, k \in 0..Len(Sites) : TopVisit(c, k)
    \/ \E c \in Codes : GetAnalytics(c)

SpecTop == InitTop /\ [][NextTop]_vars

\* --- the click history: one kind of visitor, and a clock that moves on
MaxHistEvents == 3
MaxAdvances == 4

\* The clock moves by one instant or by a day less than the history's range.
LongStep == (HistoryDays - 1) * DayLength
ClockSteps == {1, LongStep}

\* The number of AdvanceClock steps taken so far
ClockAdvances == (utcnow \div LongStep) + (utcnow % LongStep)

AdvanceClock(d) ==
    /\ ClockAdvances < MaxAdvances
    /\ utcnow' = utcnow + d
    /\ UNCHANGED <<regvars, rlvars>>

HistVisit(c) ==
    /\ Len(clicks) < MaxHistEvents
    /\ RedirectOnce(c, Visit(0))

InitHist == InitAnalytics

NextHist ==
    \/ \E c \in Codes : HistVisit(c)
    \/ \E d \in ClockSteps : AdvanceClock(d)
    \/ \E c \in Codes : GetAnalytics(c)

SpecHist == InitHist /\ [][NextHist]_vars

\* ------------------------------------------------------ the rate limiter
\* check_rate_limit's parameters max_requests and window_seconds
MaxRequests == 2
WindowSeconds == 2
MaxTime == 3
MaxChecks == 4

\* The sorted set under a client's key; a key past its expiry is gone.
zset(client) ==
    IF zexpire[client] # NoExpiry /\ now >= zexpire[client]
    THEN {}
    ELSE zsets[client]

\* pipe.zremrangebyscore(key, 0, window_start)
zremrangebyscore(z, lo, hi) == {e \in z : ~(lo <= e.score /\ e.score <= hi)}

\* pipe.zadd(key, {str(current_time): current_time}): one element per member
zadd(z, member, score) ==
    {e \in z : e.member # member} \cup {[member |-> member, score |-> score]}

\* pipe.zcard(key)
zcard(z) == Cardinality(z)

\* "if request_count > max_requests: raise HTTPException(status_code=429)"
decision(request_count, max_requests) ==
    IF request_count > max_requests THEN "limited" ELSE "allowed"

\* _check_memory_rate_limit lines 61-71: prune, then append current_time
memory_requests(client, current_time, window_start) ==
    Append(SelectSeq(memory_store[client], LAMBDA t : t > window_start),
           current_time)

Entry(client, outcome, path) ==
    [client |-> client, time |-> now, outcome |-> outcome, path |-> path]

\* _check_memory_rate_limit; self.memory_store is an AttributeError when
\* __init__ did not create it.
CheckMemory(client, path) ==
    IF ~has_memory_store
    THEN /\ rl_log' = Append(rl_log, Entry(client, "crash", path))
         /\ UNCHANGED memory_store
    ELSE LET reqs == memory_requests(client, now, now - WindowSeconds)
         IN  /\ memory_store' = [memory_store EXCEPT ![client] = reqs]
             /\ rl_log' = Append(rl_log,
                    Entry(client, decision(Len(reqs), MaxRequests), path))

\* check_rate_limit lines 29-51: the pipeline runs
CheckViaRedis(client) ==
    /\ redis_available
    /\ Len(rl_log) < MaxChecks
    /\ LET window_start == now - WindowSeconds
           z == zadd(zremrangebyscore(zset(client), 0, window_start),
                     ToString(now), now)
       IN  /\ zsets' = [zsets EXCEPT ![client] = z]
           /\ zexpire' = [zexpire EXCEPT ![client] = now + WindowSeconds]
           /\ rl_log' = Append(rl_log,
                  Entry(client, decision(zcard(z), MaxRequests), "redis"))
    /\ UNCHANGED <<now, redis_available, has_memory_store, memory_store>>
    /\ UNCHANGED <<regvars, utcnow>>

\* check_rate_limit lines 52-54: the store raises RedisError before the
\* pipeline takes effect, and the except branch takes the local path
CheckRedisFails(client) ==
    /\ redis_available
    /\ Len(rl_log) < MaxChecks
    /\ CheckMemory(client, "fallback")
    /\ UNCHANGED <<now, redis_available, has_memory_store, zsets, zexpire>>
    /\ UNCHANGED <<regvars, utcnow>>

\* check_rate_limit lines 55-57: the limiter was built without the store
CheckViaMemory(client) ==
    /\ ~redis_available
    /\ Len(rl_log) < MaxChecks
    /\ CheckMemory(client, "memory")
    /\ UNCHANGED <<now, redis_available, has_memory_store, zsets, zexpire>>
    /\ UNCHANGED <<regvars, utcnow>>

\* a second passes on the clock
Tick ==
    /\ now < MaxTime
    /\ now' = now + 1
    /\ UNCHANGED <<redis_available, has_memory_store, memory_store, zsets,
                   zexpire, rl_log>>
    /\ UNCHANGED <<regvars, utcnow>>

InitRL == InitRegistry /\ \E ok \in BOOLEAN : InitLimiter(ok)

NextRL ==
    \/ \E client \in Clients : CheckViaRedis(client)
    \/ \E client \in Clients : CheckRedisFails(client)
    \/ \E client \in Clients : CheckViaMemory(client)
    \/ Tick

SpecRL == InitRL /\ [][NextRL]_vars

\* ----------------------------------------------------------------- claims
\* Redirect requests on code c that worker(s) are still serving.
InFlight(c) == {p \in Workers : w[p].kind = "redirect" /\ w[p].code = c}

\* C1: no two rows of urls share a short_code, inactive rows included, and
\* for no short code do two create requests end with a row inserted.
C1_UniqueShortCode ==
    /\ \A i, j \in DOMAIN urls :
          urls[i].short_code = urls[j].short_code => i = j
    /\ \A c \in Codes : hist[c].created <= 1

\* The loser of a race of two creates on one custom code has just been
\* answered: both passed the existence check, one row was inserted.
C1_Witness ==
    /\ last.kind = "create" /\ last.custom # None
    /\ last.exc = "IntegrityError"
    /\ hist[last.code].created = 1
    /\ Cardinality(RowsWithCode(last.code)) = 1

\* C2: a create with a custom code that already had a row when the request
\* was issued is answered 400 (ValueError), whatever its URL and whether the
\* row is active, and inserts nothing.
C2_DuplicateCustomCode ==
    (last.kind = "create" /\ last.existed /\ HttpUrl(last.url))
        => /\ last.status = 400
           /\ last.exc = "ValueError"
           /\ last.row = 0
           /\ Cardinality(RowsWithCode(last.custom)) = 1

\* A second create on a code whose row is inactive and holds another URL.
C2_Witness ==
    /\ last.kind = "create" /\ last.existed /\ last.status = 400
    /\ \E i \in RowsWithCode(last.custom) :
          ~urls[i].is_active /\ urls[i].original_url # last.url

\* C3: a create whose insert the uniqueness constraint rejects is answered
\* 400 (CodeConflict), never 500.
C3_ConstraintViolationIsConflict ==
    (last.kind = "create" /\ last.exc = "IntegrityError") => last.status = 400

\* C4: the lookup hands a record on exactly when the code has an active
\* row; a redirect on an unknown or on a deactivated code is answered 404,
\* the deactivated row still being stored.
C4_LookupOnlyActive ==
    /\ \A p \in Workers :
          (w[p].kind = "redirect" /\ w[p].pc # "lookup") => w[p].found = "active"
    /\ last.kind = "redirect" =>
          /\ last.status = 404 <=> last.found # "active"
          /\ last.found = "inactive" => RowsWithCode(last.code) # {}

\* A redirect on a deactivated code has just been answered 404.
C4_Witness ==
    /\ last.kind = "redirect" /\ last.status = 404
    /\ last.found = "inactive"
    /\ \E i \in RowsWithCode(last.code) : ~urls[i].is_active

\* C5: once N redirects of an active code have been answered and none is
\* in flight, with no recording failure, total_clicks and click_count are N.
C5_ClicksEqualRedirects ==
    \A c \in Codes :
        ( /\ RowsWithCode(c) # {}
          /\ \A i \in RowsWithCode(c) : urls[i].is_active
          /\ ~hist[c].failed
          /\ InFlight(c) = {} )
        => /\ total_clicks(c) = hist[c].redirected
           /\ urls[first_by_code(c)].click_count = hist[c].redirected

\* C6: once every increment_click_count call on a code has completed,
\* click_count has grown by the number of completed calls.
C6_AtomicIncrement ==
    \A c \in Codes :
        ( /\ RowsWithCode(c) # {}
          /\ \A p \in InFlight(c) : w[p].pc # "incr_write" )
        => urls[first_by_code(c)].click_count = hist[c].incremented

C10_GeneratedCreateTerminates ==
    \A p \in Workers : (w[p].pc = "gen") ~> (w[p].pc = "idle")

\* Earlier checks of the same client inside the window that ends at check k.
EarlierInWindow(k) ==
    {j \in 1..(k - 1) :
        /\ rl_log[j].client = rl_log[k].client
        /\ rl_log[j].time > rl_log[k].time - WindowSeconds
        /\ rl_log[j].outcome # "crash"}

\* C8: for one client the limiter admits exactly max_requests requests in a
\* rolling window: a request is admitted only if fewer than max_requests
\* were admitted in its window, and rejected only if max_requests requests
\* lie in its window (so it is admitted again once the window has elapsed).
C8_ExactlyMaxPerWindow ==
    \A k \in DOMAIN rl_log :
        /\ rl_log[k].outcome = "allowed" =>
              Cardinality({j \in EarlierInWindow(k) :
                              rl_log[j].outcome = "allowed"}) < MaxRequests
        /\ rl_log[k].outcome = "limited" =>
              Cardinality(EarlierInWindow(k)) >= MaxRequests

\* C9: a check during which the shared store failed ends with an ordinary
\* Allowed/RateLimited decision of the process-local path, never a crash.
C9_StoreFailureFallsBack ==
    \A k \in DOMAIN rl_log :
        rl_log[k].path = "fallback" => rl_log[k].outcome \in {"allowed", "limited"}

\* C11: the click_count of every URL row is a non-negative integer and
\* never decreases from one state to the next.
C11_ClickCountMonotone ==
    /\ [](\A i \in DOMAIN urls : urls[i].click_count >= 0)
    /\ [][\A i \in DOMAIN urls :
             urls'[i].click_count >= urls[i].click_count]_vars

\* The stored events of code c, in the order of the log
LogOf(c) == SelectSeq(clicks, LAMBDA e : e.short_code = c)

ZeroAnalytics ==
    [total_clicks |-> 0, unique_ips |-> 0, top_countries |-> <<>>,
     top_referrers |-> <<>>, click_history |-> <<>>, browser_stats |-> <<>>]

\* C12: the analytics of a code that has a URL and no click events are
\* answered 200 with total_clicks 0, unique_ips 0 and four empty lists.
C12_EmptyAnalytics ==
    (/\ last.kind = "analytics"
     /\ get_url_by_code(last.code) # 0
     /\ \A i \in DOMAIN clicks : clicks[i].short_code # last.code)
    => (last.status = 200 /\ last.body = ZeroAnalytics)

\* The analytics of "b" were asked for while only "a" has events.
C12_Witness ==
    /\ last.kind = "analytics"
    /\ last.code = "b"
    /\ LogOf("b") = <<>>
    /\ Len(LogOf("a")) >= 2

Freq(vals, v) == Cardinality({i \in DOMAIN vals : vals[i] = v})
FirstAt(vals, v) == Min({i \in DOMAIN vals : vals[i] = v})

\* list is a top list of the values vals of one field, in log order
TopListOK(list, vals) ==
    /\ Len(list) <= 5
    /\ \A k \in DOMAIN list :
          /\ Truthy(list[k].key)
          /\ list[k].count >= 1
          /\ list[k].count = Freq(vals, list[k].key)
    /\ \A j, k \in DOMAIN list :
          j < k => /\ list[j].key # list[k].key
                   /\ \/ list[j].count > list[k].count
                      \/ /\ list[j].count = list[k].count
                         /\ FirstAt(vals, list[j].key) < FirstAt(vals, list[k].key)
    /\ \A i \in DOMAIN vals :
          (Truthy(vals[i]) /\ \A k \in DOMAIN list : list[k].key # vals[i])
          => /\ Len(list) = 5
             /\ \A k \in DOMAIN list : Freq(vals, vals[i]) <= list[k].count

FieldOf(c, f) == [i \in DOMAIN LogOf(c) |-> LogOf(c)[i][f]]

\* C13: top_countries, top_referrers and browser_stats each list at most 5
\* non-empty values of their field with their exact frequencies, in
\* descending frequency, ties in order of first occurrence, and no value
\* left out is more frequent than a listed one.
C13_TopLists ==
    (last.kind = "analytics" /\ last.status = 200)
    => /\ TopListOK(last.body.top_countries, FieldOf(last.code, "country"))
       /\ TopListOK(last.body.top_referrers, FieldOf(last.code, "referer"))
       /\ TopListOK(last.body.browser_stats, FieldOf(last.code, "user_agent"))

\* Six referrers were seen, one of them left out; the most frequent one was
\* not the first seen, and two listed ones tie.
C13_Witness ==
    /\ last.kind = "analytics"
    /\ last.status = 200
    /\ LET top == last.body.top_referrers
           vals == FieldOf(last.code, "referer")
       IN  /\ Len(top) = 5
           /\ \E i \in DOMAIN vals :
                 Truthy(vals[i]) /\ \A k \in DOMAIN top : top[k].key # vals[i]
           /\ top[1].count > top[2].count
           /\ FirstAt(vals, top[1].key) > FirstAt(vals, top[2].key)
           /\ top[2].count = top[3].count

\* The calendar day that an isoformat key denotes
DayOfKey(key) == key[1] * 100 + key[2] * 10 + key[3]

\* The events of log that are not older than 30 days at time t
InRange(e, t) == e.clicked_at >= t - 30 * DayLength

\* history is the click history of the events log at time t
HistoryOK(history, log, t) ==
    /\ \A k \in DOMAIN history :
          /\ history[k].clicks >= 1
          /\ history[k].clicks =
                Cardinality({i \in DOMAIN log :
                               /\ InRange(log[i], t)
                               /\ log[i].clicked_at \div DayLength
                                     = DayOfKey(history[k].date)})
          /\ (DayOfKey(history[k].date) + 1) * DayLength > t - 30 * DayLength
          /\ DayOfKey(history[k].date) * DayLength <= t
    /\ \A i \in DOMAIN log :
          InRange(log[i], t)
          => \E k \in DOMAIN history :
                DayOfKey(history[k].date) = log[i].clicked_at \div DayLength
    /\ \A j, k \in DOMAIN history :
          j < k => DayOfKey(history[j].date) < DayOfKey(history[k].date)

\* C14: click_history has exactly one entry for every calendar date with an
\* event of the code from the last 30 days, counting these events, in
\* strictly ascending date order, with no empty and no out-of-range date.
C14_ClickHistory ==
    (last.kind = "analytics" /\ last.status = 200)
    => HistoryOK(last.body.click_history, LogOf(last.code), last.at)

\* A history of two dates; on the older date one event lies exactly on the
\* cut-off and is counted, another is older and is not.
C14_Witness ==
    /\ last.kind = "analytics"
    /\ last.status = 200
    /\ Len(last.body.click_history) >= 2
    /\ last.body.click_history[1].clicks = 1
    /\ LET log == LogOf(last.code)
       IN  \E i, j \in DOMAIN log :
              /\ ~InRange(log[i], last.at)
              /\ log[j].clicked_at = last.at - 30 * DayLength
              /\ log[i].clicked_at \div DayLength = log[j].clicked_at \div DayLength

\* C15: a create request whose original_url is not a valid absolute URL is
\* answered with a 4xx status, the step that answers it leaves the URL rows
\* as they are, and no row ever holds such a URL.
C15_InvalidUrlRejected ==
    /\ [](/\ (last.kind = "create" /\ last.url \in BadURLs)
             => (last.status \in 400..499 /\ last.row = 0)
          /\ \A i \in DOMAIN urls : urls[i].original_url \notin BadURLs)
    /\ [][(last' # last /\ last'.kind = "create" /\ last'.url \in BadURLs)
             => urls' = urls]_vars

\* An invalid URL was rejected while the registry holds a row.
C15_Witness ==
    /\ last.kind = "create"
    /\ last.url \in BadURLs
    /\ last.status \in 400..499
    /\ Len(urls) >= 1

\* The checks of a client that the process-local path admitted
AdmittedLocally(client) ==
    {k \in DOMAIN rl_log : /\ rl_log[k].client = client
                           /\ rl_log[k].path # "redis"
                           /\ rl_log[k].outcome = "allowed"}

\* C16: the limiter counts admitted requests only: a client's window holds
\* no more timestamps than requests of the client were admitted, and a
\* request is rejected only when max_requests admitted requests lie in its
\* window, so that rejected requests do not delay the next admission.
C16_OnlyAdmittedCounted ==
    /\ \A client \in Clients :
          Len(memory_store[client]) <= Cardinality(AdmittedLocally(client))
    /\ \A k \in DOMAIN rl_log :
          rl_log[k].outcome = "limited" =>
              Cardinality({j \in EarlierInWindow(k) :
                              rl_log[j].outcome = "allowed"}) >= MaxRequests

\* The requests on code c whose Click row is stored and which are not
\* answered yet
Recorded(c) == {p \in InFlight(c) : w[p].pc \in {"incr_read", "incr_write"}}

\* C17 as stated: once no redirect of a code is in flight, the code has as
\* many click events as redirects of it found an active record.
C17_ExactlyOncePerRedirect ==
    \A c \in Codes : InFlight(c) = {} => total_clicks(c) = hist[c].redirected

\* C17 amended: a redirect that finds an active record stores one click
\* event, or none when recording fails before the event is stored, never
\* more; a redirect answered not-found stores none and leaves every
\* click_count alone.
C17_AtMostOncePerRedirect ==
    /\ [](\A c \in Codes :
             total_clicks(c) =
                hist[c].redirected - hist[c].dropped + Cardinality(Recorded(c)))
    /\ [][\A p \in Workers :
             (w[p].pc = "lookup" /\ w'[p] = Idle)
             => /\ last'.kind = "redirect"
                /\ last'.status = 404
                /\ clicks' = clicks
                /\ urls' = urls]_vars

\* One redirect stored its event, one lost it to a recording failure, and
\* a redirect of the deactivated code has just been answered not-found.
C17_Witness ==
    /\ last.kind = "redirect"
    /\ last.status = 404
    /\ last.found = "inactive"
    /\ hist[last.code].dropped = 1
    /\ total_clicks(last.code) = 1
    /\ hist[last.code].redirected = 2

\* C18: every create or redirect request that the service has taken up was
\* admitted by a rate limiter check before.
C18_AdmissionBeforeService ==
    served <= Cardinality({k \in DOMAIN rl_log : rl_log[k].outcome = "allowed"})

\* C19: in every state the click_count of a URL row is at most the number
\* of stored click events that carry the row's short_code.
C19_CounterNotAheadOfLog ==
    \A i \in DOMAIN urls : urls[i].click_count <= total_clicks(urls[i].short_code)

\* Three redirects are answered and stored; the counter has advanced, and a
\* lost update has left it behind the log.
C19_Witness ==
    \E i \in DOMAIN urls :
        /\ InFlight(urls[i].short_code) = {}
        /\ urls[i].click_count = 2
        /\ total_clicks(urls[i].short_code) = 3

====
